---- MODULE Spec2Model ----
(***************************************************************************)
(* The per-session connection bridge of GeminiLiveWsServer (src/index.js): *)
(* the closure created by io.on("connection") with its messageQueue,       *)
(* googleWs and connectionAttempts, the handlers setupGoogleConnection     *)
(* registers on every upstream WebSocket, the reconnect timers, the        *)
(* registry googleWsConnections with sendToolResponse, which reads it, and *)
(* the metrics counters.                                                   *)
(*                                                                         *)
(* One client session is followed through its life (not yet connected,     *)
(* connected, disconnected).  The closure variable googleWs holds the      *)
(* upstream WebSocket created last.  A WebSocket that googleWs no longer   *)
(* refers to is reachable only through the handlers registered on it; as   *)
(* long as it can still emit an event it is kept in the bag `orphans`.     *)
(* The events of a WebSocket (open, message, error, close) are delivered   *)
(* by the environment in any order its life cycle allows, and a send may   *)
(* return or throw.                                                        *)
(***************************************************************************)
EXTENDS Integers, Sequences, FiniteSets, Bags, TLC

\* ---------------------------------------------------------------- bounds
MaxHandles == 4     \* upstream WebSockets created during one run
MaxMsgs    == 2     \* non-empty client messages during one run
MaxCalls   == 2     \* longest functionCalls list of an upstream frame
MaxOthers  == 2     \* client sessions connected beside the one followed

\* ------------------------------------------------------ program constants
maxAttempts   == 3
retryDelay    == 2000
backoffFactor == 2
NormalClosure == 1000
\* close codes other than 1000 (the WebSocket reports 1006 for a failure)
AbnormalClosures == {1006}

VARIABLES
  session,              \* "none" | "connected" | "disconnected": the client socket
  messageQueue,         \* closure: frames waiting for an open upstream
  googleWs,             \* closure: the upstream WebSocket created last, or Null
  connectionAttempts,   \* closure: attempts since the last successful open
  orphans,              \* bag of earlier WebSockets that can still emit events
  timers,               \* number of pending setTimeout(setupGoogleConnection, delay)
  googleWsConnections,  \* whether the registry has an entry for socket.id (it is googleWs)
  activeConnections,    \* metricsData.activeConnections
  otherSessions,        \* connected client sessions other than the one followed
  nHandles,             \* upstream WebSockets created so far
  nSent,                \* non-empty client messages so far, numbered 1..nSent
  sent,                 \* client frames handed to an upstream send that returned, in order
  answered,             \* client messages answered by a "Send failed" error event
  exhaustedErrors,      \* "Failed to connect to AI" events since connectionAttempts was last reset
  last                  \* what the last handler run did: its outputs in program order

vars == <<session, messageQueue, googleWs, connectionAttempts, orphans, timers,
          googleWsConnections, activeConnections, otherSessions, nHandles, nSent, sent, answered,
          exhaustedErrors, last>>

\* ----------------------------------------------------------- JSON values
\* A JSON value as far as the bridge looks into it.  kind is "text" (a frame
\* that is not JSON, kept as its raw text), "null", "scalar" or "object";
\* serverContent and toolCall say what an object carries under these two
\* fields; functionCalls is the list under toolCall.functionCalls.
Value(kind, sc, tc, calls) ==
  [kind |-> kind, serverContent |-> sc, toolCall |-> tc, functionCalls |-> calls]
NoData == Value("none", "absent", "absent", <<>>)

\* ------------------------------------------------------------- outputs
\* One output of a handler: a frame sent upstream (always on googleWs), a send
\* that threw, an event emitted to the client, a hook call, an increment of a
\* counter of metricsData, a setTimeout, a WebSocket.close or a new WebSocket.
\* m is the number that goes with it (a client frame, a delay, a close code, an
\* entry of functionCalls), arg names the payload that is passed.
Out(op, what, m, arg) == [op |-> op, what |-> what, m |-> m, arg |-> arg]
SendSetup         == Out("send", "setup", 0, "")
SendMsg(m)        == Out("send", "msg", m, "")
Throw(what, m)    == Out("throw", what, m, "")
Emit(ev)          == Out("emit", ev, 0, "")
EmitData(ev, d)   == Out("emit", ev, 0, d)
Hook(name)        == Out("hook", name, 0, "")
HookData(name, d) == Out("hook", name, 0, d)
Metric(counter)   == Out("metric", counter, 0, "")
SetTimeout(delay) == Out("setTimeout", "setupGoogleConnection", delay, "")
Close(code)       == Out("close", "Client disconnected", code, "")
NewWs(delay)      == Out("new", "WebSocket", delay, "")

\* The handler that ran last: its name, whether it was a handler of the
\* WebSocket googleWs refers to (for the handlers of a WebSocket), the frame
\* it was given (for the upstream message handler), and its outputs.
Handler(name, cur, out) == [handler |-> name, cur |-> cur, frame |-> NoData, out |-> out]

\* ------------------------------------------------------------ WebSocket
\* An upstream WebSocket: its readyState, the `delay` its handlers close over,
\* and what decides the events it can still emit: whether its handshake
\* completed and whether it has reported an error.  A closed WebSocket emits
\* nothing more.
NewWebSocket(delay) ==
  [readyState |-> "CONNECTING", delay |-> delay, opened |-> FALSE, erred |-> FALSE]
ClosedWebSocket ==
  [readyState |-> "CLOSED", delay |-> 0, opened |-> FALSE, erred |-> FALSE]
Null ==
  [readyState |-> "null", delay |-> 0, opened |-> FALSE, erred |-> FALSE]

Live(w) == w.readyState \in {"CONNECTING", "OPEN"}

\* The WebSockets whose handlers can run: googleWs (cur) and the orphans.
Sockets ==
  {[cur |-> TRUE, w |-> googleWs]} \cup {[cur |-> FALSE, w |-> o] : o \in BagToSet(orphans)}

\* googleWs and orphans after WebSocket s has become w2.
GoogleWsAfter(s, w2) == IF s.cur THEN w2 ELSE googleWs
OrphansAfter(s, w2) ==
  IF s.cur THEN orphans
  ELSE (orphans (-) SetToBag({s.w}))
       (+) (IF w2.readyState = "CLOSED" THEN EmptyBag ELSE SetToBag({w2}))

RECURSIVE Pow(_, _)
Pow(b, e) == IF e = 0 THEN 1 ELSE b * Pow(b, e - 1)

\* (the delay with the exponent taken from the count of attempts itself)
DelayNextAttempt(attempts) == retryDelay * Pow(backoffFactor, attempts)
Delay(attempts) == retryDelay * Pow(backoffFactor, attempts - 1)

\* the guard of setupGoogleConnection
ExhaustedOffByOne == connectionAttempts > maxAttempts
Exhausted == connectionAttempts >= maxAttempts

\* setupGoogleConnection, called by handler `name` after it has made outputs `pre`.
SetupGoogleConnection(name, pre) ==
  IF Exhausted
  THEN /\ last' = Handler(name, FALSE, pre \o <<Emit("error:Failed to connect to AI"),
                                                 Hook("onError"), Metric("errors")>>)
       /\ exhaustedErrors' = exhaustedErrors + 1
       /\ UNCHANGED <<connectionAttempts, googleWs, orphans, googleWsConnections, nHandles>>
  ELSE /\ nHandles < MaxHandles
       /\ connectionAttempts' = connectionAttempts + 1
       /\ googleWs' = NewWebSocket(Delay(connectionAttempts + 1))
       /\ orphans' = IF googleWs.readyState \in {"null", "CLOSED"} THEN orphans
                     ELSE orphans (+) SetToBag({googleWs})
       /\ googleWsConnections' = TRUE
       /\ nHandles' = nHandles + 1
       /\ last' = Handler(name, FALSE, pre \o <<NewWs(Delay(connectionAttempts + 1))>>)
       /\ UNCHANGED exhaustedErrors

\* ---------------------------------------------------------------- Init
Init ==
  /\ session = "none"
  /\ messageQueue = <<>>
  /\ googleWs = Null
  /\ connectionAttempts = 0
  /\ orphans = EmptyBag
  /\ timers = 0
  /\ googleWsConnections = FALSE
  /\ activeConnections = 0
  /\ otherSessions = 0
  /\ nHandles = 0
  /\ nSent = 0
  /\ sent = <<>>
  /\ answered = {}
  /\ exhaustedErrors = 0
  /\ last = Handler("init", FALSE, <<>>)

\* io.on("connection")
Connection ==
  /\ session = "none"
  /\ session' = "connected"
  /\ activeConnections' = activeConnections + 1
  /\ SetupGoogleConnection("connection", <<Metric("activeConnections++"),
                                           Hook("onClientConnect")>>)
  /\ UNCHANGED <<messageQueue, timers, otherSessions, nSent, sent, answered>>

\* a reconnect timer fires
Timer ==
  /\ timers > 0
  /\ timers' = timers - 1
  /\ SetupGoogleConnection("timer", <<>>)
  /\ UNCHANGED <<session, messageQueue, activeConnections, otherSessions, nSent, sent, answered>>

\* The frames the open handler sends from the queue before send number k
\* throws (k = 0 the setup frame, k > Len(messageQueue) none).
Drained(k) ==
  IF k > Len(messageQueue) THEN messageQueue ELSE SubSeq(messageQueue, 1, k - 1)
Sends(q) == [i \in 1..Len(q) |-> SendMsg(q[i])]

\* googleWs.on("open") of WebSocket s; the handler reads the variable googleWs.
UpstreamOpen(s, k) ==
  /\ s \in Sockets
  /\ s.w.readyState = "CONNECTING"
  /\ k \in 0..(Len(messageQueue) + 1)
  /\ LET w2 == [s.w EXCEPT !.readyState = "OPEN", !.opened = TRUE] IN
     /\ googleWs' = GoogleWsAfter(s, w2)
     /\ orphans' = OrphansAfter(s, w2)
  /\ IF googleWs'.readyState # "OPEN"
     THEN /\ k = 0
          /\ last' = Handler("open", s.cur, <<>>)
          /\ UNCHANGED <<connectionAttempts, messageQueue, sent, exhaustedErrors>>
     ELSE /\ connectionAttempts' = 0
          /\ exhaustedErrors' = 0
          /\ IF k = 0
             THEN /\ last' = Handler("open", s.cur,
                               <<Throw("setup", 0), Hook("onError"), Metric("errors")>>)
                  /\ UNCHANGED <<messageQueue, sent>>
             ELSE IF k <= Len(messageQueue)
             THEN /\ last' = Handler("open", s.cur,
                               <<SendSetup>> \o Sends(Drained(k))
                               \o <<Throw("msg", messageQueue[k]), Hook("onError"),
                                    Metric("errors")>>)
                  /\ messageQueue' = SubSeq(messageQueue, k + 1, Len(messageQueue))
                  /\ sent' = sent \o Drained(k)
             ELSE /\ last' = Handler("open", s.cur,
                               <<SendSetup>> \o Sends(Drained(k)) \o <<Emit("ready")>>)
                  /\ messageQueue' = <<>>
                  /\ sent' = sent \o Drained(k)
  /\ UNCHANGED <<session, timers, googleWsConnections, activeConnections, otherSessions, nHandles,
                 nSent, answered>>

\* googleWs.on("error") of WebSocket s: a WebSocket reports a failure at most
\* once, before its close event.
UpstreamError(s) ==
  /\ s \in Sockets
  /\ s.w.readyState \in {"CONNECTING", "OPEN", "CLOSING"}
  /\ ~s.w.erred
  /\ LET w2 == [s.w EXCEPT !.readyState = "CLOSING", !.erred = TRUE] IN
     /\ googleWs' = GoogleWsAfter(s, w2)
     /\ orphans' = OrphansAfter(s, w2)
  /\ timers' = timers + 1
  /\ last' = Handler("error", s.cur,
                     <<Hook("onError"), Metric("errors"), SetTimeout(s.w.delay)>>)
  /\ UNCHANGED <<session, messageQueue, connectionAttempts, googleWsConnections,
                 activeConnections, otherSessions, nHandles, nSent, sent, answered, exhaustedErrors>>

\* The close codes WebSocket w can report: after an error an abnormal one; a
\* WebSocket whose handshake never completed reports an error first.
CloseCodes(w) ==
  IF w.erred THEN AbnormalClosures
  ELSE IF w.opened THEN {NormalClosure} \cup AbnormalClosures
  ELSE {}

\* googleWs.on("close") of WebSocket s
UpstreamClose(s, code) ==
  /\ s \in Sockets
  /\ s.w.readyState \in {"OPEN", "CLOSING"}
  /\ code \in CloseCodes(s.w)
  /\ googleWs' = GoogleWsAfter(s, ClosedWebSocket)
  /\ orphans' = OrphansAfter(s, ClosedWebSocket)
  /\ googleWsConnections' = FALSE
  /\ IF code # NormalClosure
     THEN /\ timers' = timers + 1
          /\ last' = Handler("close", s.cur, <<SetTimeout(s.w.delay)>>)
     ELSE /\ timers' = timers
          /\ last' = Handler("close", s.cur, <<>>)
  /\ UNCHANGED <<session, messageQueue, connectionAttempts, activeConnections, otherSessions,
                 nHandles, nSent, sent, answered, exhaustedErrors>>

\* The functionCalls list of n entries; an entry is named by its position.
Calls(n) == [i \in 1..n |-> i]

\* The frames an upstream can deliver: text that is not JSON, the JSON null, a
\* JSON scalar, and objects with or without serverContent (with or without
\* outputTranscription) and toolCall (one call, or a functionCalls list).
Frames ==
  {Value("text", "absent", "absent", <<>>), Value("null", "absent", "absent", <<>>),
   Value("scalar", "absent", "absent", <<>>)}
  \cup {Value("object", sc, tc, <<>>) :
          sc \in {"absent", "other", "outputTranscription"}, tc \in {"absent", "single"}}
  \cup {Value("object", sc, "list", Calls(n)) :
          sc \in {"absent", "other", "outputTranscription"}, n \in 0..MaxCalls}

\* JSON.parse(data.toString()): throws on text that is not JSON
JSONparse(frame) == [ok |-> frame.kind # "text", value |-> frame]

\* parsedData.serverContent && parsedData.serverContent.outputTranscription
IsTranscription(parsedData) ==
  parsedData.kind = "object" /\ parsedData.serverContent = "outputTranscription"

\* (the calls without the Array.isArray normalisation: toolCall itself, once)
ToolCallsNotNormalized(parsedData) ==
  IF parsedData.kind = "object" /\ parsedData.toolCall # "absent"
  THEN <<Out("hook", "onToolCall", 0, "toolCall")>>
  ELSE <<>>

\* the onToolCall calls of a frame that is not a transcription: one per entry of
\* toolCall.functionCalls when that is a list, else one with toolCall itself
ToolCalls(parsedData) ==
  IF parsedData.kind = "object" /\ parsedData.toolCall # "absent"
  THEN IF parsedData.toolCall = "list"
       THEN [i \in 1..Len(parsedData.functionCalls) |->
               Out("hook", "onToolCall", parsedData.functionCalls[i], "functionCalls[m]")]
       ELSE <<Out("hook", "onToolCall", 0, "toolCall")>>
  ELSE <<>>

\* (the handler with onMessage called after the if/else, for every frame)
OnMessageHookAlways(frame) ==
  LET parsed     == JSONparse(frame)
      parsedData == IF parsed.ok THEN parsed.value ELSE frame
      payload    == IF parsed.ok THEN "decoded" ELSE "raw text"
      caught     == IF parsed.ok THEN <<>> ELSE <<Hook("onError")>>
  IN IF parsedData.kind = "null"
     THEN caught \o <<Throw("TypeError", 0)>>
     ELSE IF IsTranscription(parsedData)
     THEN caught \o <<EmitData("transcription", "outputTranscription.text"),
                      HookData("onMessage", payload), Metric("messagesProcessed")>>
     ELSE caught \o <<EmitData("message", payload)>> \o ToolCalls(parsedData)
          \o <<HookData("onMessage", payload), Metric("messagesProcessed")>>

\* the outputs of googleWs.on("message") for one frame; parsedData is the
\* decoded frame, or the raw text of a frame that is not JSON
OnMessage(frame) ==
  LET parsed     == JSONparse(frame)
      parsedData == IF parsed.ok THEN parsed.value ELSE frame
      payload    == IF parsed.ok THEN "decoded" ELSE "raw text"
      caught     == IF parsed.ok THEN <<>> ELSE <<Hook("onError")>>
  IN IF parsedData.kind = "null"
     THEN caught \o <<Throw("TypeError", 0)>>
     ELSE IF IsTranscription(parsedData)
     THEN caught \o <<EmitData("transcription", "outputTranscription.text"),
                      Metric("messagesProcessed")>>
     ELSE caught \o <<EmitData("message", payload)>> \o ToolCalls(parsedData)
          \o <<HookData("onMessage", payload), Metric("messagesProcessed")>>

\* googleWs.on("message") of WebSocket s
UpstreamMessage(s, frame) ==
  /\ s \in Sockets
  /\ s.w.readyState = "OPEN"
  /\ last' = [handler |-> "message", cur |-> s.cur, frame |-> frame,
               out |-> OnMessage(frame)]
  /\ UNCHANGED <<session, messageQueue, googleWs, connectionAttempts, orphans, timers,
                 googleWsConnections, activeConnections, otherSessions, nHandles, nSent, sent,
                 answered, exhaustedErrors>>

\* (the falsy message reported and then handled like any other message that
\* finds no open WebSocket)
ClientEmptyMessageNoReturn ==
  /\ session = "connected"
  /\ last' = Handler("clientMessage", FALSE,
                     <<Emit("error:Empty message"), Hook("onError"), Metric("errors")>>)
  /\ messageQueue' = IF googleWs.readyState = "OPEN" THEN messageQueue
                     ELSE Append(messageQueue, 0)
  /\ UNCHANGED <<session, googleWs, connectionAttempts, orphans, timers,
                 googleWsConnections, activeConnections, otherSessions, nHandles, nSent,
                 sent, answered, exhaustedErrors>>

\* socket.on("message") with a falsy message
ClientEmptyMessage ==
  /\ session = "connected"
  /\ last' = Handler("clientMessage", FALSE,
                     <<Emit("error:Empty message"), Hook("onError"), Metric("errors")>>)
  /\ UNCHANGED <<session, messageQueue, googleWs, connectionAttempts, orphans, timers,
                 googleWsConnections, activeConnections, otherSessions, nHandles, nSent, sent,
                 answered, exhaustedErrors>>

\* (a send that throws answered by queueing the frame and a reconnect timer)
ClientMessageOpenRetry(throws) ==
  /\ session = "connected"
  /\ nSent < MaxMsgs
  /\ googleWs.readyState = "OPEN"
  /\ nSent' = nSent + 1
  /\ IF throws
     THEN /\ last' = Handler("clientMessage", FALSE,
                        <<Throw("msg", nSent + 1), Emit("error:Send failed"),
                          Hook("onError"), Metric("errors"), SetTimeout(googleWs.delay)>>)
          /\ answered' = answered \cup {nSent + 1}
          /\ messageQueue' = Append(messageQueue, nSent + 1)
          /\ timers' = timers + 1
          /\ UNCHANGED sent
     ELSE /\ last' = Handler("clientMessage", FALSE, <<SendMsg(nSent + 1)>>)
          /\ sent' = Append(sent, nSent + 1)
          /\ UNCHANGED <<answered, messageQueue, timers>>
  /\ UNCHANGED <<session, googleWs, connectionAttempts, orphans,
                 googleWsConnections, activeConnections, otherSessions, nHandles,
                 exhaustedErrors>>

\* socket.on("message") with a non-empty message, the (nSent + 1)-th of the
\* session, while googleWs is open; the send returns or throws.
ClientMessageOpen(throws) ==
  /\ session = "connected"
  /\ nSent < MaxMsgs
  /\ googleWs.readyState = "OPEN"
  /\ nSent' = nSent + 1
  /\ IF throws
     THEN /\ last' = Handler("clientMessage", FALSE,
                        <<Throw("msg", nSent + 1), Emit("error:Send failed"),
                          Hook("onError"), Metric("errors")>>)
          /\ answered' = answered \cup {nSent + 1}
          /\ UNCHANGED sent
     ELSE /\ last' = Handler("clientMessage", FALSE, <<SendMsg(nSent + 1)>>)
          /\ sent' = Append(sent, nSent + 1)
          /\ UNCHANGED answered
  /\ UNCHANGED <<session, messageQueue, googleWs, connectionAttempts, orphans, timers,
                 googleWsConnections, activeConnections, otherSessions, nHandles, exhaustedErrors>>

\* socket.on("message") with a non-empty message while googleWs is not open:
\* the frame is queued, and a connection is set up when googleWs is null or
\* closed.
ClientMessageQueued ==
  /\ session = "connected"
  /\ nSent < MaxMsgs
  /\ googleWs.readyState # "OPEN"
  /\ nSent' = nSent + 1
  /\ messageQueue' = Append(messageQueue, nSent + 1)
  /\ IF googleWs.readyState \in {"null", "CLOSED"}
     THEN SetupGoogleConnection("clientMessage", <<>>)
     ELSE /\ last' = Handler("clientMessage", FALSE, <<>>)
          /\ UNCHANGED <<connectionAttempts, googleWs, orphans, googleWsConnections,
                         nHandles, exhaustedErrors>>
  /\ UNCHANGED <<session, timers, activeConnections, otherSessions, sent, answered>>

\* WebSocket.close() called on w
CloseWebSocket(w) ==
  IF Live(w) THEN [w EXCEPT !.readyState = "CLOSING"] ELSE w

\* (disconnect with the counter decremented beside the close of a live WebSocket)
DisconnectCountedOnClose ==
  /\ session = "connected"
  /\ session' = "disconnected"
  /\ activeConnections' = IF Live(googleWs) THEN activeConnections - 1 ELSE activeConnections
  /\ googleWs' = CloseWebSocket(googleWs)
  /\ googleWsConnections' = FALSE
  /\ last' = Handler("disconnect", FALSE,
                     <<Metric("activeConnections--"), Hook("onDisconnect"),
                       Close(NormalClosure)>>)
  /\ UNCHANGED <<messageQueue, connectionAttempts, orphans, timers, otherSessions,
                 nHandles, nSent, sent, answered, exhaustedErrors>>

\* socket.on("disconnect")
Disconnect ==
  /\ session = "connected"
  /\ session' = "disconnected"
  /\ activeConnections' = activeConnections - 1
  /\ IF googleWs.readyState # "null"
     THEN /\ googleWs' = CloseWebSocket(googleWs)
          /\ googleWsConnections' = FALSE
          /\ last' = Handler("disconnect", FALSE,
                             <<Metric("activeConnections--"), Hook("onDisconnect"),
                               Close(NormalClosure)>>)
     ELSE /\ last' = Handler("disconnect", FALSE,
                             <<Metric("activeConnections--"), Hook("onDisconnect")>>)
          /\ UNCHANGED <<googleWs, googleWsConnections>>
  /\ UNCHANGED <<messageQueue, connectionAttempts, orphans, timers, otherSessions,
                 nHandles, nSent, sent, answered, exhaustedErrors>>

\* io.on("connection") for another client: its closure is not followed, the
\* shared counter is.
OtherConnection ==
  /\ otherSessions < MaxOthers
  /\ otherSessions' = otherSessions + 1
  /\ activeConnections' = activeConnections + 1
  /\ last' = Handler("otherConnection", FALSE,
                     <<Metric("activeConnections++"), Hook("onClientConnect")>>)
  /\ UNCHANGED <<session, messageQueue, googleWs, connectionAttempts, orphans, timers,
                 googleWsConnections, nHandles, nSent, sent, answered, exhaustedErrors>>

\* socket.on("disconnect") of another client
OtherDisconnect ==
  /\ otherSessions > 0
  /\ otherSessions' = otherSessions - 1
  /\ activeConnections' = activeConnections - 1
  /\ last' = Handler("otherDisconnect", FALSE,
                     <<Metric("activeConnections--"), Hook("onDisconnect")>>)
  /\ UNCHANGED <<session, messageQueue, googleWs, connectionAttempts, orphans, timers,
                 googleWsConnections, nHandles, nSent, sent, answered, exhaustedErrors>>

\* The functionResponses argument of sendToolResponse: one response, or an
\* array of MaxCalls responses; a response is named by its position.
ToolResponses ==
  {[isArray |-> FALSE, entries |-> <<1>>], [isArray |-> TRUE, entries |-> Calls(MaxCalls)]}

\* Array.isArray(functionResponses) ? functionResponses : [functionResponses]
FunctionResponses(functionResponses) ==
  IF functionResponses.isArray THEN functionResponses.entries
  ELSE <<functionResponses.entries[1]>>

\* sendToolResponse(socket, functionResponses): the WebSocket is looked up in
\* the registry (the entry, when there is one, is the WebSocket created last);
\* the send returns or throws.
SendToolResponse(functionResponses, throws) ==
  /\ session = "connected"
  /\ functionResponses \in ToolResponses
  /\ IF ~googleWsConnections \/ googleWs.readyState # "OPEN"
     THEN /\ ~throws
          /\ last' = Handler("sendToolResponse", FALSE,
                             <<Emit("error:Google WebSocket not connected")>>)
     ELSE IF throws
     THEN last' = Handler("sendToolResponse", FALSE,
                          <<Throw("tool_response", Len(FunctionResponses(functionResponses))),
                            Emit("error:Failed to send tool response")>>)
     ELSE last' = Handler("sendToolResponse", FALSE,
                          <<Out("send", "tool_response",
                                Len(FunctionResponses(functionResponses)),
                                "function_responses")>>)
  /\ UNCHANGED <<session, messageQueue, googleWs, connectionAttempts, orphans, timers,
                 googleWsConnections, activeConnections, otherSessions, nHandles, nSent, sent,
                 answered, exhaustedErrors>>

\* The connection life cycle, the queue and the sends of a session; a send
\* returns or throws.
Next ==
  \/ Connection
  \/ Timer
  \/ \E s \in Sockets, k \in 0..(MaxMsgs + 1) : UpstreamOpen(s, k)
  \/ \E s \in Sockets : UpstreamError(s)
  \/ \E s \in Sockets, code \in {NormalClosure} \cup AbnormalClosures : UpstreamClose(s, code)
  \/ ClientEmptyMessage
  \/ \E throws \in BOOLEAN : ClientMessageOpen(throws)
  \/ ClientMessageQueued
  \/ Disconnect

Spec == Init /\ [][Next]_vars

\* The same with an upstream whose send never throws.
NextConnect ==
  \/ Connection
  \/ Timer
  \/ \E s \in Sockets : UpstreamOpen(s, Len(messageQueue) + 1)
  \/ \E s \in Sockets : UpstreamError(s)
  \/ \E s \in Sockets, code \in {NormalClosure} \cup AbnormalClosures : UpstreamClose(s, code)
  \/ ClientEmptyMessage
  \/ ClientMessageOpen(FALSE)
  \/ ClientMessageQueued
  \/ Disconnect

SpecConnect == Init /\ [][NextConnect]_vars

\* The non-empty messages of a client, with a send that returns or throws.
NextSend ==
  \/ Connection
  \/ Timer
  \/ \E s \in Sockets : UpstreamOpen(s, Len(messageQueue) + 1)
  \/ \E s \in Sockets : UpstreamError(s)
  \/ \E s \in Sockets, code \in {NormalClosure} \cup AbnormalClosures : UpstreamClose(s, code)
  \/ \E throws \in BOOLEAN : ClientMessageOpen(throws)
  \/ ClientMessageQueued
  \/ Disconnect

SpecSend == Init /\ [][NextSend]_vars

\* The same with tool responses sent by the application.
NextTools ==
  \/ Connection
  \/ Timer
  \/ \E s \in Sockets : UpstreamOpen(s, Len(messageQueue) + 1)
  \/ \E s \in Sockets : UpstreamError(s)
  \/ \E s \in Sockets, code \in {NormalClosure} \cup AbnormalClosures : UpstreamClose(s, code)
  \/ ClientEmptyMessage
  \/ ClientMessageOpen(FALSE)
  \/ ClientMessageQueued
  \/ Disconnect
  \/ \E functionResponses \in ToolResponses, throws \in BOOLEAN :
       SendToolResponse(functionResponses, throws)

SpecTools == Init /\ [][NextTools]_vars

\* Several client sessions that connect and disconnect; the upstream of one of
\* them is followed.
NextSessions ==
  \/ Connection
  \/ OtherConnection
  \/ Timer
  \/ \E s \in Sockets : UpstreamOpen(s, Len(messageQueue) + 1)
  \/ \E s \in Sockets : UpstreamError(s)
  \/ \E s \in Sockets, code \in {NormalClosure} \cup AbnormalClosures : UpstreamClose(s, code)
  \/ Disconnect
  \/ OtherDisconnect

SpecSessions == Init /\ [][NextSessions]_vars

\* The upstream frames of a session whose client sends no message.
NextInbound ==
  \/ Connection
  \/ Timer
  \/ \E s \in Sockets, k \in 0..1 : UpstreamOpen(s, k)
  \/ \E s \in Sockets, frame \in Frames : UpstreamMessage(s, frame)
  \/ \E s \in Sockets : UpstreamError(s)
  \/ \E s \in Sockets, code \in {NormalClosure} \cup AbnormalClosures : UpstreamClose(s, code)
  \/ Disconnect

SpecInbound == Init /\ [][NextInbound]_vars

\* ================================================================ claims
Range(q) == {q[i] : i \in 1..Len(q)}
LiveOrphans == {o \in BagToSet(orphans) : Live(o)}
NumLive ==
  (IF Live(googleWs) THEN 1 ELSE 0)
  + BagCardinality([o \in LiveOrphans |-> CopiesIn(o, orphans)])

\* what a frame gives the client and the hooks: its decoded value, or its raw
\* text when it is not JSON
Payload(frame) == IF frame.kind = "text" THEN "raw text" ELSE "decoded"

\* the outputs of the last handler that are of `op` and `what`
Outs(op, what) == {i \in 1..Len(last.out) : last.out[i].op = op /\ last.out[i].what = what}

\* C1: the session never has two live (CONNECTING or OPEN) upstream WebSockets
\* at a time, whatever reconnect triggers arrive.
C1_AtMostOneLive == NumLive <= 1

\* C2: the client frames that reach the upstream arrive in the order the
\* client sent them, across reconnects.
C2_SentInOrder == \A i, j \in 1..Len(sent) : i < j => sent[i] < sent[j]

\* C3: every non-empty message of a connected session has been sent, is
\* still queued, or was answered by an error event.
C3_NoneLost ==
  session = "connected" =>
    \A m \in 1..nSent : m \in Range(sent) \/ m \in Range(messageQueue) \/ m \in answered

\* C4: connectionAttempts never exceeds maxAttempts, and once it has reached
\* maxAttempts no handler creates another upstream WebSocket until an open
\* has reset it.
C4_AttemptsBounded ==
  /\ [](connectionAttempts <= maxAttempts)
  /\ [][connectionAttempts >= maxAttempts => nHandles' = nHandles]_vars
C4_Witness ==
  /\ connectionAttempts = maxAttempts
  /\ nHandles = maxAttempts
  /\ last.handler \in {"timer", "clientMessage"}
  /\ Outs("emit", "error:Failed to connect to AI") # {}

\* C5: one exhaustion is reported to the client by exactly one "Failed to
\* connect to AI" error event.
C5_ExhaustedOnce == exhaustedErrors <= 1

\* C6: a reconnect timer that fires after the client disconnected creates no
\* upstream WebSocket, adds no registry entry and reports no error.
C6_TimerAfterDisconnect ==
  (session = "disconnected" /\ last.handler = "timer") =>
    (last.out = <<>> /\ ~googleWsConnections)

\* C7: when a client disconnect has been handled, no upstream WebSocket of the
\* session is live and the registry holds no entry for the session.
C7_DisconnectClosesAll ==
  last.handler = "disconnect" => (NumLive = 0 /\ ~googleWsConnections)

\* C8: when an upstream WebSocket opens, the setup frame is sent to it first,
\* then the queued frames in order, then `ready` is emitted, and
\* connectionAttempts is 0 afterwards.
C8_OpenSequence ==
  last.handler = "open" =>
    /\ last.cur
    /\ Len(last.out) >= 2
    /\ last.out[1] = SendSetup
    /\ last.out[Len(last.out)] = Emit("ready")
    /\ \A i \in 2..(Len(last.out) - 1) :
         /\ last.out[i].op = "send" /\ last.out[i].what = "msg"
         /\ i > 2 => last.out[i - 1].m < last.out[i].m
    /\ messageQueue = <<>>
    /\ connectionAttempts = 0

\* C9: for every upstream frame the client receives exactly one of a
\* `transcription` and a `message` event: `transcription` exactly when the
\* decoded frame carries serverContent.outputTranscription, else `message`
\* with the decoded payload, or the raw text of a frame that is not JSON.
C9_ExactlyOneEvent ==
  last.handler = "message" =>
    /\ Cardinality(Outs("emit", "transcription")) + Cardinality(Outs("emit", "message")) = 1
    /\ Outs("emit", "transcription") # {} <=> last.frame.serverContent = "outputTranscription"
    /\ \A i \in Outs("emit", "message") : last.out[i].arg = Payload(last.frame)

\* C10: for every upstream frame, whatever its classification (a frame the
\* handler delivers as a transcription or as a message), the hook onMessage
\* is called exactly once with the decoded payload.
C10_OnMessageAlways ==
  (last.handler = "message"
   /\ Outs("emit", "transcription") \cup Outs("emit", "message") # {}) =>
    /\ Cardinality(Outs("hook", "onMessage")) = 1
    /\ \A i \in Outs("hook", "onMessage") : last.out[i].arg = Payload(last.frame)

\* C10, amended: onMessage is called exactly once, with the same payload, for
\* every upstream frame the client receives as a `message` event, and not at
\* all for any other frame: not for a transcription.
C10_OnMessageIffGeneric ==
  last.handler = "message" =>
    /\ Cardinality(Outs("hook", "onMessage")) = Cardinality(Outs("emit", "message"))
    /\ Cardinality(Outs("hook", "onMessage")) <= 1
    /\ \A i \in Outs("hook", "onMessage") :
         /\ last.out[i].arg = Payload(last.frame)
         /\ \E j \in Outs("emit", "message") : j < i /\ last.out[j].arg = last.out[i].arg
    /\ IsTranscription(last.frame) => Outs("hook", "onMessage") = {}
    /\ (last.frame.kind \in {"text", "scalar", "object"} /\ ~IsTranscription(last.frame))
         => Outs("hook", "onMessage") # {}
C10_Witness ==
  /\ last.handler = "message"
  /\ last.frame.toolCall = "list"
  /\ Len(last.frame.functionCalls) = MaxCalls
  /\ ~IsTranscription(last.frame)
  /\ Outs("emit", "message") # {}
  /\ Outs("hook", "onMessage") # {}

\* the onToolCall calls of the last handler, in program order
IsToolCallHook(o) == o.op = "hook" /\ o.what = "onToolCall"
ToolCallHooks == SelectSeq(last.out, IsToolCallHook)

\* C11: for a frame classified as ToolCall (not a transcription, with a
\* toolCall field) onToolCall is called once per entry of
\* toolCall.functionCalls, in the order of the list, or once with toolCall
\* itself when there is no list; for a transcription and for a frame
\* without toolCall it is not called.
C11_ToolCallPerEntry ==
  last.handler = "message" =>
    IF IsTranscription(last.frame) \/ last.frame.kind # "object"
       \/ last.frame.toolCall = "absent"
    THEN ToolCallHooks = <<>>
    ELSE IF last.frame.toolCall = "list"
    THEN /\ Len(ToolCallHooks) = Len(last.frame.functionCalls)
         /\ \A i \in 1..Len(ToolCallHooks) :
              /\ ToolCallHooks[i].m = last.frame.functionCalls[i]
              /\ ToolCallHooks[i].arg = "functionCalls[m]"
    ELSE /\ Len(ToolCallHooks) = 1
         /\ ToolCallHooks[1].arg = "toolCall"
C11_Witness ==
  /\ last.handler = "message"
  /\ ~IsTranscription(last.frame)
  /\ last.frame.toolCall = "list"
  /\ Len(last.frame.functionCalls) = MaxCalls
  /\ Len(ToolCallHooks) = MaxCalls
  /\ ToolCallHooks[1].m = 1 /\ ToolCallHooks[MaxCalls].m = MaxCalls

\* C12: sendToolResponse sends a tool_response frame at once whenever the
\* WebSocket of the session is open; otherwise it emits an error to the
\* client and sends nothing; in both cases the queue, the WebSockets, the
\* timers and connectionAttempts are left as they were.
C12_ToolResponse ==
  [][last'.handler = "sendToolResponse" =>
       /\ IF googleWs.readyState = "OPEN"
          THEN \E i \in 1..Len(last'.out) :
                 /\ last'.out[i].op \in {"send", "throw"}
                 /\ last'.out[i].what = "tool_response"
          ELSE last'.out = <<Emit("error:Google WebSocket not connected")>>
       /\ UNCHANGED <<messageQueue, googleWs, connectionAttempts, orphans, timers,
                      nHandles, sent>>]_vars

\* C13: activeConnections is the number of connected client sessions, never
\* negative, and a disconnect decrements it by exactly one, also when the
\* session has no WebSocket that is still live.
C13_ActiveSessions ==
  /\ [](/\ activeConnections = (IF session = "connected" THEN 1 ELSE 0) + otherSessions
        /\ activeConnections >= 0)
  /\ [][last'.handler \in {"disconnect", "otherDisconnect"}
          => activeConnections' = activeConnections - 1]_vars
C13_Witness ==
  /\ last.handler = "disconnect"
  /\ Outs("close", "Client disconnected") # {}
  /\ googleWs.readyState = "CLOSED"
  /\ otherSessions = MaxOthers
  /\ activeConnections = MaxOthers

\* the delays of the outputs of the last handler that are of `op`
DelaysOf(op) == {last.out[i].m : i \in {j \in 1..Len(last.out) : last.out[j].op = op}}

\* C14: the WebSocket of the n-th attempt, n in 1..maxAttempts, is created
\* with the delay retryDelay * backoffFactor^(n-1), and the reconnect that an
\* error or an abnormal close schedules waits the delay of connectionAttempts
\* as it is at that closure (backoffFactor * delay = retryDelay *
\* backoffFactor^connectionAttempts).
C14_DelayAtClosure ==
  /\ last.handler \in {"connection", "timer", "clientMessage"} =>
       \A d \in DelaysOf("new") :
         /\ connectionAttempts \in 1..maxAttempts
         /\ d = retryDelay * Pow(backoffFactor, connectionAttempts - 1)
  /\ last.handler \in {"error", "close"} =>
       \A d \in DelaysOf("setTimeout") :
         d * backoffFactor = retryDelay * Pow(backoffFactor, connectionAttempts)

\* C14, amended: the reconnect waits the delay computed when the WebSocket
\* that failed was created, retryDelay * backoffFactor^(n-1) for its attempt
\* n in 1..maxAttempts; that is the delay of connectionAttempts at the closure
\* only as long as no open has reset connectionAttempts to 0 and no later
\* WebSocket was created.
C14_DelayAtCreation ==
  /\ last.handler \in {"connection", "timer", "clientMessage"} =>
       \A d \in DelaysOf("new") :
         /\ connectionAttempts \in 1..maxAttempts
         /\ d = retryDelay * Pow(backoffFactor, connectionAttempts - 1)
         /\ googleWs.delay = d
  /\ \A s \in Sockets : s.w.readyState \in {"CONNECTING", "OPEN", "CLOSING"} =>
       /\ \E n \in 1..maxAttempts : s.w.delay = retryDelay * Pow(backoffFactor, n - 1)
       /\ (s.cur /\ connectionAttempts > 0) =>
            s.w.delay = retryDelay * Pow(backoffFactor, connectionAttempts - 1)
  /\ last.handler \in {"error", "close"} =>
       \A d \in DelaysOf("setTimeout") :
         /\ \E n \in 1..maxAttempts : d = retryDelay * Pow(backoffFactor, n - 1)
         /\ (last.cur /\ connectionAttempts > 0) =>
              d = retryDelay * Pow(backoffFactor, connectionAttempts - 1)
C14_Witness ==
  /\ last.handler = "close"
  /\ last.cur
  /\ connectionAttempts = 0
  /\ DelaysOf("setTimeout") = {retryDelay * backoffFactor}

\* C15: an empty client message is answered by an error event and a call of
\* onError, and leaves the queue, the WebSockets, the registry, the timers and
\* connectionAttempts as they were; no WebSocket is created, whatever the
\* state of googleWs.
C15_EmptyRejected ==
  [][(last'.handler = "clientMessage"
      /\ \E i \in 1..Len(last'.out) : last'.out[i] = Emit("error:Empty message")) =>
       /\ last'.out[1] = Emit("error:Empty message")
       /\ \E i \in 1..Len(last'.out) : last'.out[i] = Hook("onError")
       /\ \A i \in 1..Len(last'.out) : last'.out[i].op \notin {"new", "send", "setTimeout"}
       /\ UNCHANGED <<messageQueue, googleWs, connectionAttempts, orphans, timers,
                      googleWsConnections, nHandles, nSent, sent>>]_vars
C15_Witness ==
  /\ last.handler = "clientMessage"
  /\ Outs("emit", "error:Empty message") # {}
  /\ Outs("hook", "onError") # {}
  /\ googleWs.readyState = "CLOSED"
  /\ messageQueue # <<>>

\* C16: the closure of a WebSocket that the disconnect handler has closed
\* schedules no reconnect: when the events of that WebSocket follow the
\* disconnect, no timer is set.
C16_NoReconnectAfterDisconnect ==
  [][(last.handler = "disconnect"
      /\ googleWs.readyState = "CLOSING" /\ ~googleWs.erred
      /\ last'.handler \in {"error", "close"} /\ last'.cur) =>
       timers' = timers]_vars

\* C17: a non-empty client message that finds googleWs open is sent at once
\* and not queued; when the send throws, the client gets an error event and
\* onError is called, and googleWs, connectionAttempts, the queue and the
\* timers stay as they were: no WebSocket is created.
C17_SendWhileOpen ==
  [][(last'.handler = "clientMessage" /\ nSent' = nSent + 1
      /\ googleWs.readyState = "OPEN") =>
       /\ UNCHANGED <<messageQueue, googleWs, connectionAttempts, orphans, timers,
                      nHandles, googleWsConnections>>
       /\ \/ /\ last'.out = <<SendMsg(nSent')>>
             /\ sent' = Append(sent, nSent')
          \/ /\ last'.out[1] = Throw("msg", nSent')
             /\ \E i \in 1..Len(last'.out) : last'.out[i] = Emit("error:Send failed")
             /\ \E i \in 1..Len(last'.out) : last'.out[i] = Hook("onError")
             /\ \A i \in 1..Len(last'.out) :
                  last'.out[i].op \notin {"new", "send", "setTimeout"}
             /\ sent' = sent]_vars
C17_Witness ==
  /\ last.handler = "clientMessage"
  /\ Outs("throw", "msg") # {}
  /\ Outs("emit", "error:Send failed") # {}
  /\ googleWs.readyState = "OPEN"
  /\ nSent \in answered
  /\ sent # <<>>

\* the error events of the bridge, and the outputs of the last handler that
\* are one
ErrorEvents ==
  {"error:Empty message", "error:Send failed", "error:Failed to connect to AI",
   "error:Google WebSocket not connected", "error:Failed to send tool response"}
ErrorEmits == {i \in 1..Len(last.out) : last.out[i].op = "emit" /\ last.out[i].what \in ErrorEvents}
SendThrows ==
  {i \in 1..Len(last.out) :
     last.out[i].op = "throw" /\ last.out[i].what \in {"setup", "msg", "tool_response"}}

\* C18: a handler that meets an empty message, a send that throws, a frame
\* that is not JSON, exhausted attempts or a tool response without an open
\* WebSocket emits an error event to the client, calls onError and counts
\* the error, once each.
C18_ErrorsReported ==
  (/\ last.handler \in {"connection", "timer", "clientMessage", "open", "message",
                        "sendToolResponse"}
   /\ \/ ErrorEmits # {}
      \/ SendThrows # {}
      \/ Outs("hook", "onError") # {}) =>
    /\ Cardinality(ErrorEmits) = 1
    /\ Cardinality(Outs("hook", "onError")) = 1
    /\ Cardinality(Outs("metric", "errors")) = 1

\* C19: the close event of a WebSocket that has already reported its failure
\* by an error event sets no second reconnect timer.
C19_OneReconnectPerFailure ==
  [][(last'.handler = "close" /\ last'.cur /\ googleWs.erred) => timers' = timers]_vars

\* C20: as long as the WebSocket created last for a connected session is
\* CONNECTING or OPEN, the registry has the entry of the session (which
\* refers to it).
C20_RegistryHasCurrent ==
  (session = "connected" /\ Live(googleWs)) => googleWsConnections
====
